---- MODULE Spec2Model ----
(***************************************************************************)
(* Model of the hybrid recommendation engine of kxshrx/cirquix:            *)
(*   05_backend/app/services/hybrid_recommender.py                         *)
(*     HybridRecommendationSystem (load_models, load_product_metadata,     *)
(*     get_user_history, get_als_recommendations,                          *)
(*     get_popularity_recommendations, get_category_recommendations,       *)
(*     get_recommendations, is_available)                                  *)
(*                                                                         *)
(* Product ids are the numbers 1..NumItems.  Confidences are floats in the *)
(* code (1.0 - i*0.1, 0.8 - i*0.1); the model counts them in tenths, so    *)
(* 1.0 is 10 and 0.1 is 1.  Python's None is the record None, a value v is *)
(* Some(v).  An exception that leaves get_recommendations is a result      *)
(* record with raised = TRUE.                                              *)
(***************************************************************************)
EXTENDS Integers, Sequences, FiniteSets, TLC

----------------------------------------------------------------------------
(* Bounds of the model *)

\* number of products in the catalogue (product ids 1..NumItems)
NumItems == 7

\* longest interaction history a user has in the database
MaxHist == 5

\* largest result count k (top_k) a request asks for
MaxK == 7

(* Program constants *)

\* self.min_history_threshold = 5
min_history_threshold == 5

----------------------------------------------------------------------------
(* Helpers *)

Max(a, b) == IF a >= b THEN a ELSE b

Min(a, b) == IF a <= b THEN a ELSE b

Range(s) == {s[i] : i \in 1..Len(s)}

\* Python slice s[:n]
Take(s, n) == SubSeq(s, 1, Min(n, Len(s)))

None == [isNone |-> TRUE]

Some(v) == [isNone |-> FALSE, val |-> v]

Items == 1..NumItems

Users == {"U1", "COLD_999"}

----------------------------------------------------------------------------
(* The environment: artifact files, database                               *)

\* products that occur in interaction histories
HistItems == {1, 2}

\* interaction histories, most recent first (ORDER BY timestamp DESC); the
\* interactions table has no uniqueness constraint, a product may recur
Histories == UNION {[1..n -> HistItems] : n \in 0..MaxHist}

\* rows of the products table: the last product of the catalogue has no row
ProductsWithMetadata == 1..(NumItems - 1)

\* a NULL average_rating (NaN in the data frame)
NaN == 0 - 1

\* the row of product p: categories alternate, ratings (in tenths) are
\* distinct, and the last row's average_rating is NULL
ProductRow(p) ==
    [title |-> "title",
     main_category |-> IF p % 2 = 1 THEN "Electronics" ELSE "Books",
     average_rating |-> IF p = NumItems - 1 THEN NaN ELSE 30 + p,
     price |-> "9.99"]

ProductsTable == [p \in ProductsWithMetadata |-> ProductRow(p)]

\* contents of fallback_data_04.pkl: its 'top_popular_items' list
PopularTables == {[i \in 1..n |-> i] : n \in {0, 1, 3, NumItems}}

\* contents of mappings_optimized_04.pkl: every product has an index, the
\* user U1 is in the training data or not
ItemToIdx == [p \in Items |-> p - 1]

IdxToItem == [i \in 0..(NumItems - 1) |-> i + 1]

MappingsContents ==
    {[user_to_idx |-> [u \in us |-> 0],
      idx_to_user |-> [i \in {j \in {0} : us # {}} |-> "U1"],
      item_to_idx |-> ItemToIdx,
      idx_to_item |-> IdxToItem] : us \in {{}, {"U1"}}}

\* contents of als_model_optimized_04.pkl: the trained factors, seen through
\* the ranking of item indices by score they induce
AlsModels ==
    {[ranking |-> [j \in 1..NumItems |-> j - 1]],
     [ranking |-> [j \in 1..NumItems |-> NumItems - j]]}

\* a file is absent, or present with contents
Absent == [present |-> FALSE]

Present(c) == [present |-> TRUE, contents |-> c]

VARIABLES
    model_file,        \* als_model_optimized_04.pkl
    mappings_file,     \* mappings_optimized_04.pkl
    fallback_file,     \* fallback_data_04.pkl
    db,                \* recommendation.db: readable or not, interactions of U1
    als_model,         \* self.als_model
    user_mappings,     \* self.user_mappings
    item_mappings,     \* self.item_mappings
    fallback_data,     \* self.fallback_data
    product_metadata,  \* self.product_metadata
    user_item_matrix,  \* self.user_item_matrix
    load_result,       \* what the last load_models call returned
    request,           \* the last get_recommendations call's arguments
    result,            \* what it returned, or that it raised, until the caller took it
    als_call,          \* whether it called get_als_recommendations, and the list it got
    recommender,       \* RecommendationService.recommender: None or the engine
    service_request,   \* the last RecommendationService.get_recommendations arguments
    service_result,    \* what it returned, or that it raised, until the caller took it
    rec_service,       \* main.rec_service: 0 for None, or the number of the instance
    instances,         \* how many RecommendationService objects were constructed
    served_by,         \* the instance the last recommendation request was given
    response,          \* the last HTTP response
    api_request,       \* the last request of GET /recommendations/{user_id}, and
                       \* whether its handler called the service
    interaction_rows,  \* the interaction CSVs: how many rows each (user, product) has
    ids_numeric,       \* read_csv parses an id column of the CSVs as numbers
    MIN_USER_INTERACTIONS,     \* the two thresholds of 3_make_dense_dataset.py
    MIN_PRODUCT_UNIQUE_USERS,
    users_keep,        \* main's users_keep
    products_keep,     \* main's products_keep
    it,                \* main's it
    dense_pc,          \* where main of 3_make_dense_dataset.py is
    explanation_call,  \* the last _generate_explanation call and its outcome
    llm_call           \* the last get_llm_explanation call and its outcome

vars == <<model_file, mappings_file, fallback_file, db, als_model, user_mappings,
          item_mappings, fallback_data, product_metadata, user_item_matrix,
          load_result, request, result, als_call, recommender, service_request,
          service_result, rec_service, instances, served_by, response,
          api_request, interaction_rows, ids_numeric, MIN_USER_INTERACTIONS,
          MIN_PRODUCT_UNIQUE_USERS, users_keep, products_keep, it, dense_pc,
          explanation_call, llm_call>>

env == <<model_file, mappings_file, fallback_file, db>>

service == <<recommender, service_request, service_result>>

api == <<rec_service, instances, served_by, response, api_request>>

dense_env == <<interaction_rows, ids_numeric, MIN_USER_INTERACTIONS,
               MIN_PRODUCT_UNIQUE_USERS>>

dense == <<dense_env, users_keep, products_keep, it, dense_pc>>

annotator == <<explanation_call, llm_call>>

engine == <<als_model, user_mappings, item_mappings, fallback_data,
            product_metadata, user_item_matrix>>

----------------------------------------------------------------------------
(* HybridRecommendationSystem: the pure parts                              *)

\* get_user_history: the user's product ids, most recent first; any
\* exception (database unreadable) gives the empty history
get_user_history(user_id) ==
    IF db.readable THEN db.interactions[user_id] ELSE <<>>

\* is_available
is_available ==
    /\ ~als_model.isNone
    /\ ~user_mappings.isNone
    /\ ~item_mappings.isNone

\* als_model.recommend called without N=top_k: the library's default N = 10
recommend_default_N(model, user_idx, N) ==
    [j \in 1..Min(10, Len(model.ranking)) |->
        <<model.ranking[j], Len(model.ranking) + 1 - j>>]

\* als_model.recommend(user_idx, row, N=top_k, filter_already_liked_items=False):
\* the N best item indices with their scores, best first; nothing is filtered
recommend(model, user_idx, N) ==
    [j \in 1..Min(N, Len(model.ranking)) |->
        <<model.ranking[j], Len(model.ranking) + 1 - j>>]

\* lines 140-156 of get_als_recommendations: score the user's row and
\* translate the item indices that have a product id
ScoreRow(user_idx, top_k) ==
    LET scored == recommend(als_model.val, user_idx, top_k)
        known == SelectSeq(scored,
                     LAMBDA r : r[1] \in DOMAIN item_mappings.val.from_idx)
    IN  [j \in 1..Len(known) |->
           <<item_mappings.val.from_idx[known[j][1]], known[j][2]>>]

\* get_als_recommendations without its try/except: an exception of the
\* scoring call leaves it
get_als_recommendations_uncaught(user_id, top_k, raises_inside) ==
    IF user_id \notin DOMAIN user_mappings.val.to_idx
    THEN [raised |-> FALSE, recs |-> <<>>]
    ELSE IF user_item_matrix.isNone
    THEN [raised |-> FALSE, recs |-> <<>>]
    ELSE IF raises_inside
    THEN [raised |-> TRUE, recs |-> <<>>]
    ELSE [raised |-> FALSE,
          recs |-> ScoreRow(user_mappings.val.to_idx[user_id], top_k)]

\* get_als_recommendations: the list it returns; raises_inside says that the
\* scoring call throws, which the try/except turns into the empty list, so the
\* call itself never raises
get_als_recommendations(user_id, top_k, raises_inside) ==
    IF user_id \notin DOMAIN user_mappings.val.to_idx
    THEN [raised |-> FALSE, recs |-> <<>>]
    ELSE IF user_item_matrix.isNone
    THEN [raised |-> FALSE, recs |-> <<>>]
    ELSE IF raises_inside
    THEN [raised |-> FALSE, recs |-> <<>>]
    ELSE [raised |-> FALSE,
          recs |-> ScoreRow(user_mappings.val.to_idx[user_id], top_k)]

\* get_popularity_recommendations with the sign of the decay wrong
get_popularity_recommendations_rising(top_k, exclude_items) ==
    LET popular_items == fallback_data.val.top_popular_items
        kept == IF exclude_items # <<>>
                THEN SelectSeq(popular_items,
                         LAMBDA item : item \notin Range(exclude_items))
                ELSE popular_items
        head == Take(kept, top_k)
    IN  [j \in 1..Len(head) |-> <<head[j], Max(10 + (j - 1), 1)>>]

\* get_popularity_recommendations slicing before it filters
get_popularity_recommendations_slice_first(top_k, exclude_items) ==
    LET head == Take(fallback_data.val.top_popular_items, top_k)
        kept == IF exclude_items # <<>>
                THEN SelectSeq(head, LAMBDA item : item \notin Range(exclude_items))
                ELSE head
    IN  [j \in 1..Len(kept) |-> <<kept[j], Max(10 - (j - 1), 1)>>]

\* get_popularity_recommendations without the exclude_items filter
get_popularity_recommendations_unfiltered(top_k, exclude_items) ==
    LET head == Take(fallback_data.val.top_popular_items, top_k)
    IN  [j \in 1..Len(head) |-> <<head[j], Max(10 - (j - 1), 1)>>]

\* get_popularity_recommendations
get_popularity_recommendations(top_k, exclude_items) ==
    LET popular_items == fallback_data.val.top_popular_items
        kept == IF exclude_items # <<>>
                THEN SelectSeq(popular_items,
                         LAMBDA item : item \notin Range(exclude_items))
                ELSE popular_items
        head == Take(kept, top_k)
    IN  [j \in 1..Len(head) |-> <<head[j], Max(10 - (j - 1), 1)>>]

\* sort_values('average_rating', ascending=False) of a set of products
RECURSIVE SortByRatingDesc(_)
SortByRatingDesc(S) ==
    IF S = {} THEN <<>>
    ELSE LET best == CHOOSE p \in S : \A q \in S :
                        product_metadata.val[p].average_rating
                            >= product_metadata.val[q].average_rating
         IN  <<best>> \o SortByRatingDesc(S \ {best})

\* get_category_recommendations without the floor of the confidence
get_category_recommendations_no_floor(category, top_k, exclude_items) ==
    IF product_metadata.isNone THEN <<>>
    ELSE LET in_category == {p \in DOMAIN product_metadata.val :
                                product_metadata.val[p].main_category = category}
             not_excluded == IF exclude_items # <<>>
                             THEN in_category \ Range(exclude_items)
                             ELSE in_category
             rated == {p \in not_excluded :
                          product_metadata.val[p].average_rating # NaN}
             head == Take(SortByRatingDesc(rated), top_k)
         IN  [j \in 1..Len(head) |-> <<head[j], 8 - (j - 1)>>]

\* get_category_recommendations
get_category_recommendations(category, top_k, exclude_items) ==
    IF product_metadata.isNone THEN <<>>
    ELSE LET in_category == {p \in DOMAIN product_metadata.val :
                                product_metadata.val[p].main_category = category}
             not_excluded == IF exclude_items # <<>>
                             THEN in_category \ Range(exclude_items)
                             ELSE in_category
             rated == {p \in not_excluded :
                          product_metadata.val[p].average_rating # NaN}
             head == Take(SortByRatingDesc(rated), top_k)
         IN  [j \in 1..Len(head) |-> <<head[j], Max(8 - (j - 1), 2)>>]

\* how often x occurs in the list s (list.count)
Count(s, x) == Cardinality({i \in 1..Len(s) : s[i] = x})

\* the categories of the 5 most recent history items that have a metadata row
\* with a category (lines 238-243)
UserCategories(history_items) ==
    LET recent == Take(history_items, 5)
        found == SelectSeq(recent, LAMBDA item : item \in DOMAIN product_metadata.val)
    IN  [j \in 1..Len(found) |-> product_metadata.val[found[j]].main_category]

\* max(set(user_categories), key=user_categories.count): the first category
\* of maximal count in the iteration order of a set of strings, which string
\* hashing fixes per process and not per program; any category of maximal
\* count can be the one
PreferredCategories(user_categories) ==
    {c \in Range(user_categories) :
        \A d \in Range(user_categories) :
            Count(user_categories, c) >= Count(user_categories, d)}

\* the cascade with top_k // 2 popularity candidates, no floor of 6
FallbackCascade_half(history_items, top_k) ==
    LET pop_recs == get_popularity_recommendations(top_k \div 2, history_items)
        chosen == [j \in 1..Len(pop_recs) |-> pop_recs[j][1]]
        user_categories == UserCategories(history_items)
        cat_recs_choices ==
            IF history_items # <<>> /\ ~product_metadata.isNone
               /\ user_categories # <<>>
            THEN {get_category_recommendations(c, top_k \div 3, history_items \o chosen) :
                     c \in PreferredCategories(user_categories)}
            ELSE {<<>>}
    IN  {Take(pop_recs \o cat_recs, top_k) : cat_recs \in cat_recs_choices}

\* the cascade whose category step excludes the history only
FallbackCascade_history_only(history_items, top_k) ==
    LET pop_recs == get_popularity_recommendations(Max(6, top_k \div 2), history_items)
        user_categories == UserCategories(history_items)
        cat_recs_choices ==
            IF history_items # <<>> /\ ~product_metadata.isNone
               /\ user_categories # <<>>
            THEN {get_category_recommendations(c, top_k \div 3, history_items) :
                     c \in PreferredCategories(user_categories)}
            ELSE {<<>>}
    IN  {Take(pop_recs \o cat_recs, top_k) : cat_recs \in cat_recs_choices}

\* Strategy 2 of get_recommendations (lines 228-255): the lists it can build
FallbackCascade(history_items, top_k) ==
    LET pop_recs == get_popularity_recommendations(Max(6, top_k \div 2), history_items)
        chosen == [j \in 1..Len(pop_recs) |-> pop_recs[j][1]]
        user_categories == UserCategories(history_items)
        cat_recs_choices ==
            IF history_items # <<>> /\ ~product_metadata.isNone
               /\ user_categories # <<>>
            THEN {get_category_recommendations(c, top_k \div 3, history_items \o chosen) :
                     c \in PreferredCategories(user_categories)}
            ELSE {<<>>}
    IN  {Take(pop_recs \o cat_recs, top_k) : cat_recs \in cat_recs_choices}

\* the strategies that have a template (lines 299-304)
TemplateStrategies == {"als_collaborative", "hybrid_fallback", "popularity", "category_based"}

\* the f-string of a strategy, as its literal parts around the category
Template(strategy, category) ==
    CASE strategy = "als_collaborative" ->
            <<"Recommended based on users with similar preferences in ", category>>
      [] strategy = "hybrid_fallback" ->
            <<"Popular ", category, " product recommended for you">>
      [] strategy = "popularity" ->
            <<"Trending ", category, " product with high ratings">>
      [] strategy = "category_based" ->
            <<"Recommended based on your interest in ", category, " products">>

\* _generate_explanation with explanations[strategy] for explanations.get:
\* a strategy without a template is a KeyError
_generate_explanation_strict(strategy, category) ==
    IF strategy \in TemplateStrategies
    THEN [raised |-> FALSE, text |-> Template(strategy, category)]
    ELSE [raised |-> TRUE, text |-> <<>>]

\* _generate_explanation (lines 297-306)
_generate_explanation(strategy, category) ==
    IF strategy \in TemplateStrategies
    THEN [raised |-> FALSE, text |-> Template(strategy, category)]
    ELSE [raised |-> FALSE, text |-> <<"Recommended product based on your preferences">>]

\* one entry of the returned list (lines 259-281, 293)
Entry(rec, strategy_used, include_metadata) ==
    IF include_metadata /\ ~product_metadata.isNone
    THEN IF rec[1] \in DOMAIN product_metadata.val
         THEN LET prod_data == product_metadata.val[rec[1]]
              IN  [product_id |-> rec[1],
                   title |-> prod_data.title,
                   category |-> prod_data.main_category,
                   price |-> prod_data.price,
                   rating |-> prod_data.average_rating,
                   confidence |-> rec[2],
                   explanation |->
                       _generate_explanation(strategy_used, prod_data.main_category).text]
         ELSE [product_id |-> rec[1],
               title |-> "Unknown Product",
               category |-> "Unknown",
               price |-> "N/A",
               rating |-> 0,
               confidence |-> rec[2],
               explanation |-> _generate_explanation(strategy_used, "product").text]
    ELSE [product_id |-> rec[1], confidence |-> rec[2]]

\* the returned dict with the length of the list as user_history_size
Returned_list_size(user_id, strategy_used, recommendations, include_metadata, history_items) ==
    [status |-> "returned",
     user_id |-> user_id,
     strategy |-> strategy_used,
     recommendations |->
         [j \in 1..Len(recommendations) |-> Entry(recommendations[j], strategy_used, include_metadata)],
     user_history_size |-> Len(recommendations)]

\* the returned dict (lines 283-295)
Returned(user_id, strategy_used, recommendations, include_metadata, history_items) ==
    [status |-> "returned",
     user_id |-> user_id,
     strategy |-> strategy_used,
     recommendations |->
         [j \in 1..Len(recommendations) |-> Entry(recommendations[j], strategy_used, include_metadata)],
     user_history_size |-> Len(history_items)]

\* an exception leaves get_recommendations: nothing is returned
Raised(user_id) ==
    [status |-> "raised",
     user_id |-> user_id,
     strategy |-> "",
     recommendations |-> <<>>,
     user_history_size |-> 0]

NoCall == [called |-> FALSE, raised |-> FALSE, recs |-> <<>>]

\* the condition of line 221 with the threshold off by one
Eligible_off_by_one(user_id, history_items) ==
    /\ Len(history_items) >= min_history_threshold - 1
    /\ ~user_mappings.isNone
    /\ user_id \in DOMAIN user_mappings.val.to_idx

\* the condition of line 221 (user_mappings is subscripted only when the
\* history is long enough: Python's `and` short-circuits)
Eligible(user_id, history_items) ==
    /\ Len(history_items) >= min_history_threshold
    /\ user_id \in DOMAIN user_mappings.val.to_idx

\* Strategy 1 gated by the history length alone, a user without an index
\* being scored on row 0
CollaborativeAttempt_default_row(user_id, top_k, history_items, raises_inside) ==
    IF Len(history_items) >= min_history_threshold
    THEN [called |-> TRUE, raised |-> FALSE,
          recs |-> IF user_item_matrix.isNone \/ raises_inside
                   THEN <<>>
                   ELSE ScoreRow(IF user_id \in DOMAIN user_mappings.val.to_idx
                                 THEN user_mappings.val.to_idx[user_id]
                                 ELSE 0,
                                 top_k)]
    ELSE NoCall

\* Strategy 1 of get_recommendations (lines 220-225): the call of
\* get_als_recommendations it makes, if any
CollaborativeAttempt(user_id, top_k, history_items, raises_inside) ==
    IF Eligible(user_id, history_items)
    THEN LET got == get_als_recommendations(user_id, top_k, raises_inside)
         IN  [called |-> TRUE, raised |-> got.raised, recs |-> got.recs]
    ELSE NoCall

\* line 228 without its condition: the fallback always runs
RunFallback_always(recommendations) == TRUE

\* line 228: `if not recommendations`
RunFallback(recommendations) == recommendations = <<>>

\* Strategy 2 and the return (lines 228-295): what a call that reaches the
\* fallback gives; fallback_data is used without a check
Strategy2(user_id, top_k, include_metadata, history_items) ==
    IF fallback_data.isNone
    THEN \* AttributeError: 'NoneType' object has no attribute 'get'
         {Raised(user_id)}
    ELSE {Returned(user_id, "hybrid_fallback", recs, include_metadata, history_items) :
             recs \in FallbackCascade(history_items, top_k)}

\* get_recommendations: the outcomes of one call, each the returned value (or
\* that it raised) and the get_als_recommendations call it made
get_recommendations(user_id, top_k, include_metadata, raises_inside) ==
    LET history_items == get_user_history(user_id)
    IN  IF Len(history_items) >= min_history_threshold /\ user_mappings.isNone
        THEN \* TypeError: 'NoneType' object is not subscriptable
             {[ret |-> Raised(user_id), als |-> NoCall]}
        ELSE LET als == CollaborativeAttempt(user_id, top_k, history_items, raises_inside)
             IN  IF als.raised
                 THEN {[ret |-> Raised(user_id), als |-> als]}
                 ELSE IF ~RunFallback(als.recs)
                 THEN {[ret |-> Returned(user_id, "als_collaborative", als.recs,
                                         include_metadata, history_items),
                        als |-> als]}
                 ELSE {[ret |-> r, als |-> als] :
                          r \in Strategy2(user_id, top_k, include_metadata, history_items)}

----------------------------------------------------------------------------
(* RecommendationService (services/recommendations.py)                     *)

\* the two static products; their ids are outside the catalogue
EchoDot == NumItems + 1
FireTvStick == NumItems + 2

fallback_products ==
    <<[product_id |-> EchoDot, title |-> "Echo Dot Smart Speaker",
       category |-> "Amazon Devices", price |-> "49.99", rating |-> 45,
       confidence |-> 5, explanation |-> "Popular product recommendation"],
      [product_id |-> FireTvStick, title |-> "Fire TV Stick",
       category |-> "Amazon Devices", price |-> "39.99", rating |-> 45,
       confidence |-> 4, explanation |-> "Trending electronics product"]>>

ServiceReturned(user_id, strategy, recommendations) ==
    [status |-> "returned", user_id |-> user_id, strategy |-> strategy,
     recommendations |-> recommendations]

ServiceRaised(user_id) ==
    [status |-> "raised", user_id |-> user_id, strategy |-> "",
     recommendations |-> <<>>]

\* _get_fallback_recommendations: the static list cut to num_recommendations;
\* llm_explains says that use_llm is set, get_llm_explanation was imported and
\* its call returned, in which case each explanation is replaced
_get_fallback_recommendations(user_id, num_recommendations, llm_explains) ==
    LET selected_products == Take(fallback_products, num_recommendations)
    IN  ServiceReturned(user_id, "fallback",
            [j \in 1..Len(selected_products) |->
                IF llm_explains
                THEN [selected_products[j] EXCEPT !.explanation = "llm explanation"]
                ELSE selected_products[j]])

\* the except branch of get_recommendations without its handler: the
\* exception leaves the service
except_branch_reraise(user_id, num_recommendations, llm_explains) ==
    ServiceRaised(user_id)

\* the except branch of get_recommendations (lines 83-85)
except_branch(user_id, num_recommendations, llm_explains) ==
    _get_fallback_recommendations(user_id, num_recommendations, llm_explains)

\* the keys of the dict the engine returns, in insertion order (lines 283-295)
ResultKeys == <<"user_id", "strategy", "recommendations", "user_history_size">>

\* the formatting loop (lines 54-64): "for rec in recommendations" iterates
\* the returned dict, so rec is a key, a str, and rec["product_id"] raises
\* TypeError at the first one
FormatLoop(recommendations) ==
    [raised |-> Len(ResultKeys) > 0, formatted_recs |-> <<>>]

\* RecommendationService.get_recommendations, given what the engine call did
\* (lines 45-85)
AfterEngineCall(ret, user_id, num_recommendations, llm_explains) ==
    IF ret.status = "raised"
    THEN except_branch(user_id, num_recommendations, llm_explains)
    ELSE LET loop == FormatLoop(ret)
         IN  IF loop.raised
             THEN except_branch(user_id, num_recommendations, llm_explains)
             ELSE ServiceReturned(user_id, "fallback", loop.formatted_recs)

NoServiceRequest == [user_id |-> "U1", num_recommendations |-> 1]

NoServiceResult ==
    [status |-> "none", user_id |-> "U1", strategy |-> "", recommendations |-> <<>>]

\* what a call of RecommendationService.get_recommendations can return
service_get_recommendations(user_id, num_recommendations, llm_explains) ==
    IF recommender = "none"
    THEN {_get_fallback_recommendations(user_id, num_recommendations, llm_explains)}
    ELSE {AfterEngineCall(out.ret, user_id, num_recommendations, llm_explains) :
             out \in UNION {get_recommendations(user_id, num_recommendations, TRUE, r) :
                               r \in BOOLEAN}}

----------------------------------------------------------------------------
(* Explanations                                                            *)

NoExplanationCall ==
    [called |-> FALSE, strategy |-> "", category |-> "", raised |-> FALSE, text |-> <<>>]

NoLlmCall ==
    [called |-> FALSE, recommendations |-> <<>>, raised |-> FALSE, explanations |-> <<>>]

\* the strategy arguments drawn for _generate_explanation
ExplainedStrategies == TemplateStrategies \cup {"unknown", "fallback", ""}

\* the category arguments: categories of products, 'product' (what a
\* metadata miss passes, line 280) and 'Unknown'
ExplainedCategories == {"Electronics", "Books", "product", "Unknown", "nan"}

----------------------------------------------------------------------------
(* LLMExplanationService (services/llm_integration.py)                     *)

\* the most recommendations one get_llm_explanation call is given
MaxRecs == 2

\* the most lines of a reply of the text-generation API
MaxReplyLines == 2

\* a recommendation dict: product_id 0 and category "" stand for a dict
\* without that key
LlmRecs ==
    {[product_id |-> p, category |-> c] :
        p \in {0, 1, 2}, c \in {"", "Amazon Devices", "Books"}}

\* lines of a reply: a sentence, a numbered sentence, digits, a blank line
ReplyLines == {"Great pick.", "1. Great pick.", "2024", " "}

\* what the call of the API does: no key is configured, the request raises,
\* the status is not 200, or the status is 200 with a content
ApiOutcomes ==
    {[kind |-> k, content |-> <<>>] : k \in {"no_key", "raises", "error_status"}}
    \cup
    {[kind |-> "ok", content |-> c] :
        c \in UNION {[1..n -> ReplyLines] : n \in 0..MaxReplyLines}}

\* line.strip()
LineStrip(line) == IF line = " " THEN "" ELSE line

\* explanation.lstrip('123456789.- ')
LStripNumbering(line) ==
    CASE line = "1. Great pick." -> "Great pick."
      [] line = "2024" -> "024"
      [] OTHER -> line

\* build_prompt: the numbered product lines of the prompt, by category;
\* rec['title'] and rec['category'] raise KeyError on a dict without the
\* key, and a user_history item whose title is None raises TypeError
build_prompt(recommendations, history_malformed) ==
    IF history_malformed \/ \E i \in 1..Len(recommendations) :
                               recommendations[i].category = ""
    THEN [raised |-> TRUE, product_lines |-> <<>>]
    ELSE [raised |-> FALSE,
          product_lines |-> [i \in 1..Len(recommendations) |->
                               recommendations[i].category]]

\* _generate_fallback_explanations: one sentence per product line
_generate_fallback_explanations(prompt) ==
    [i \in 1..Len(prompt.product_lines) |->
        IF prompt.product_lines[i] = "Amazon Devices"
        THEN "Recommended smart device that complements your tech preferences."
        ELSE "Recommended based on your purchase history and preferences."]

\* call_groq_api: the lines of the text it returns
call_groq_api(prompt, api_outcome) ==
    IF api_outcome.kind = "ok"
    THEN api_outcome.content
    ELSE _generate_fallback_explanations(prompt)

\* the except branch of get_llm_explanation (lines 312-321); rec["product_id"]
\* raises KeyError on a dict without the key
LlmExceptBranch(recommendations) ==
    IF \E i \in 1..Len(recommendations) : recommendations[i].product_id = 0
    THEN [raised |-> TRUE, explanations |-> <<>>]
    ELSE [raised |-> FALSE,
          explanations |->
              [i \in 1..Len(recommendations) |->
                  [product_id |-> recommendations[i].product_id,
                   explanation |-> IF recommendations[i].category = ""
                                   THEN "Recommended product based on your interests."
                                   ELSE "Recommended category based on your interests."]]]

\* the matching loop of get_llm_explanation that stops at the last line
\* of the reply
MatchLoop_reply_only(recommendations, explanation_lines) ==
    [i \in 1..Min(Len(recommendations), Len(explanation_lines)) |->
        [product_id |-> recommendations[i].product_id,
         explanation |-> LStripNumbering(explanation_lines[i])]]

\* the matching loop of get_llm_explanation (lines 292-308)
MatchLoop(recommendations, explanation_lines) ==
    [i \in 1..Len(recommendations) |->
        [product_id |-> recommendations[i].product_id,
         explanation |->
             IF i <= Len(explanation_lines)
             THEN LStripNumbering(explanation_lines[i])
             ELSE "Recommended based on your preferences and product quality."]]

\* LLMExplanationService.get_llm_explanation (lines 265-321)
get_llm_explanation(recommendations, history_malformed, api_outcome) ==
    IF recommendations = <<>>
    THEN [raised |-> FALSE, explanations |-> <<>>]
    ELSE LET prompt == build_prompt(recommendations, history_malformed)
         IN  IF prompt.raised
             THEN LlmExceptBranch(recommendations)
             ELSE LET llm_response == call_groq_api(prompt, api_outcome)
                      stripped == [i \in 1..Len(llm_response) |->
                                      LineStrip(llm_response[i])]
                      explanation_lines == SelectSeq(stripped, LAMBDA line : line # "")
                  IN  IF \E i \in 1..Len(recommendations) :
                            recommendations[i].product_id = 0
                      THEN LlmExceptBranch(recommendations)
                      ELSE [raised |-> FALSE,
                            explanations |-> MatchLoop(recommendations, explanation_lines)]

----------------------------------------------------------------------------
(* The REST layer (main.py, routers/recommendations.py)                    *)

\* the largest limit the handler accepts (line 37)
MaxLimit == 20

\* path parameters: the users, and two that are empty once stripped
ApiUserIds == Users \cup {"", " "}

\* user_id.strip()
strip(user_id) == IF user_id = " " THEN "" ELSE user_id

Limits == {0, 1, 2, MaxLimit, MaxLimit + 1}

NoResponse == [code |-> 0, detail |-> "", strategy |-> "", product_ids |-> <<>>]

HTTPException(status_code, detail) ==
    [code |-> status_code, detail |-> detail, strategy |-> "", product_ids |-> <<>>]

\* RecommendationResponse(**recommendations)
RecommendationResponse(recommendations) ==
    [code |-> 200, detail |-> "", strategy |-> recommendations.strategy,
     product_ids |-> [j \in 1..Len(recommendations.recommendations) |->
                        recommendations.recommendations[j].product_id]]

NoApiRequest == [user_id |-> "", limit |-> 0, service_called |-> FALSE]

\* the handler body without the check of limit
get_user_recommendations_any_limit(user_id, limit, llm_explains) ==
    IF user_id = "" \/ strip(user_id) = ""
    THEN {[service_called |-> FALSE,
           response |-> HTTPException(400, "User ID cannot be empty")]}
    ELSE {[service_called |-> TRUE,
           response |-> IF recommendations.status = "raised"
                        THEN HTTPException(500, "Error generating recommendations")
                        ELSE RecommendationResponse(recommendations)] :
             recommendations \in
                 service_get_recommendations(user_id, limit, llm_explains)}

\* the body of get_user_recommendations (lines 34-69): the response, and
\* whether rec_service.get_recommendations was called
get_user_recommendations(user_id, limit, llm_explains) ==
    IF user_id = "" \/ strip(user_id) = ""
    THEN {[service_called |-> FALSE,
           response |-> HTTPException(400, "User ID cannot be empty")]}
    ELSE IF limit < 1 \/ limit > MaxLimit
         THEN {[service_called |-> FALSE,
                response |-> HTTPException(400, "Limit must be between 1 and 20")]}
         ELSE {[service_called |-> TRUE,
                response |-> IF recommendations.status = "raised"
                             THEN HTTPException(500, "Error generating recommendations")
                             ELSE RecommendationResponse(recommendations)] :
                  recommendations \in
                      service_get_recommendations(user_id, limit, llm_explains)}

----------------------------------------------------------------------------
(* The dense-dataset filter (02_data_preprocessing/3_make_dense_dataset.py) *)

DenseUsers == {"u1", "u2", "u3"}

DenseProducts == {"p1", "p2"}

\* the most rows one (user, product) pair has in the CSVs
MaxDup == 2

\* the largest threshold; the source has 10 and 15, here every pair of
\* thresholds up to MaxThreshold is taken
MaxThreshold == 2

\* the most iterations of the pruning loop that are followed
MaxIt == 8

RECURSIVE SumRows(_, _)
SumRows(pairs, rows) ==
    IF pairs = {}
    THEN 0
    ELSE LET pair == CHOOSE x \in pairs : TRUE
         IN  rows[pair] + SumRows(pairs \ {pair}, rows)

\* the rows a scan counts: all of them, or with keep sets those whose user
\* and product are in them; isin compares the column's values with the
\* strings of the keep sets, and a number equals no string
ScannedPairs(filtered) ==
    {pair \in DenseUsers \X DenseProducts :
        /\ interaction_rows[pair] > 0
        /\ filtered => /\ ~ids_numeric
                       /\ pair[1] \in users_keep
                       /\ pair[2] \in products_keep}

\* compute_global_maps: rows per user (a Counter: only users with a row),
\* and the set of users per product (only products with a row)
compute_global_maps(filtered) ==
    LET pairs == ScannedPairs(filtered)
    IN  [user_counts |->
            [u \in {pair[1] : pair \in pairs} |->
                SumRows({pair \in pairs : pair[1] = u}, interaction_rows)],
         product_users |->
            [p \in {pair[2] : pair \in pairs} |->
                {pair[1] : pair \in {q \in pairs : q[2] = p}}]]

\* lines 289-290 and 300-301
KeepUsers(maps) ==
    {u \in DOMAIN maps.user_counts : maps.user_counts[u] >= MIN_USER_INTERACTIONS}

KeepProducts(maps) ==
    {p \in DOMAIN maps.product_users :
        Cardinality(maps.product_users[p]) >= MIN_PRODUCT_UNIQUE_USERS}

\* a loop that never finds its keep sets unchanged
Converged_never(new_users_keep, new_products_keep) == FALSE

\* a loop that exits as soon as the users' keep set is unchanged
Converged_users_only(new_users_keep, new_products_keep) ==
    new_users_keep = users_keep

\* line 305
Converged(new_users_keep, new_products_keep) ==
    new_users_keep = users_keep /\ new_products_keep = products_keep

----------------------------------------------------------------------------
(* The state machine                                                       *)

\* the rating of the i-th most recent interaction of a user, in stars
RowRating(i) == 5 - ((i - 1) % 5)

\* the interactions that pass the filter of lines 78-84: (user, row number)
\* with the user and the row's product both in the mappings
ValidInteractions(mappings) ==
    UNION {{<<u, i>> : i \in {j \in 1..Len(db.interactions[u]) :
                                db.interactions[u][j] \in DOMAIN mappings.item_to_idx}} :
              u \in DOMAIN mappings.user_to_idx}

\* the (user index, item index) of a valid interaction (lines 87-88)
Indices(mappings, row) ==
    <<mappings.user_to_idx[row[1]],
      mappings.item_to_idx[db.interactions[row[1]][row[2]]]>>

RECURSIVE SumRatings(_)
SumRatings(rows) ==
    IF rows = {}
    THEN 0
    ELSE LET row == CHOOSE r \in rows : TRUE
         IN  RowRating(row[2]) + SumRatings(rows \ {row})

\* _create_user_item_matrix: the stored entries of the csr_matrix, by (user
\* index, item index); csr_matrix((data, (row, col))) adds up the data of
\* equal (row, col). None when the database cannot be read or the rating
\* column is not numeric (csr_matrix rejects an object array), both inside
\* the try
create_user_item_matrix(mappings) ==
    IF db.readable /\ db.ratings_numeric
    THEN LET valid_interactions == ValidInteractions(mappings)
         IN  Some([pair \in {Indices(mappings, row) : row \in valid_interactions} |->
                      SumRatings({row \in valid_interactions :
                                     Indices(mappings, row) = pair})])
    ELSE None

\* the database cannot be opened or has no tables
Unreadable ==
    [readable |-> FALSE, interactions |-> [u \in Users |-> <<>>],
     ratings_numeric |-> TRUE, products |-> ProductsTable]

\* a products table four times the catalogue: the categories alternate, the
\* ratings (in tenths) are distinct, one row's average_rating is NULL
WideProducts == 1..(4 * NumItems)

WideProductRow(p) ==
    [title |-> "title",
     main_category |-> IF p % 2 = 1 THEN "Electronics" ELSE "Books",
     average_rating |-> IF p = 4 * NumItems - 1 THEN NaN ELSE 10 + p,
     price |-> "9.99"]

WideDatabases ==
    {[readable |-> TRUE,
      interactions |-> [u \in Users |-> IF u = "U1" THEN h ELSE <<>>],
      ratings_numeric |-> TRUE,
      products |-> [p \in WideProducts |-> WideProductRow(p)]] : h \in Histories}

\* databases from which the matrix cannot be built: unreadable, or with a
\* rating column that is not numeric
DegradedDatabases ==
    {Unreadable}
    \cup
    {[readable |-> TRUE,
      interactions |-> [u \in Users |-> IF u = "U1" THEN h ELSE <<>>],
      ratings_numeric |-> FALSE,
      products |-> ProductsTable] : h \in Histories}

Databases ==
    {Unreadable}
    \cup
    {[readable |-> TRUE,
      interactions |-> [u \in Users |-> IF u = "U1" THEN h ELSE <<>>],
      ratings_numeric |-> TRUE,
      products |-> ProductsTable] : h \in Histories}

NoRequest == [user_id |-> "U1", top_k |-> 1, include_metadata |-> FALSE]

NoResult ==
    [status |-> "none", user_id |-> "U1", strategy |-> "",
     recommendations |-> <<>>, user_history_size |-> 0]

\* the engine is a synchronous object: its methods are called one after the
\* other, the next one once the caller has the previous call's value
Idle == result.status = "none" /\ service_result.status = "none"

\* no API process is running
NoApi ==
    /\ rec_service = 0
    /\ instances = 0
    /\ served_by = 0
    /\ response = NoResponse
    /\ api_request = NoApiRequest

\* 3_make_dense_dataset.py is not run
NoDense ==
    /\ interaction_rows = [pair \in DenseUsers \X DenseProducts |-> 0]
    /\ ids_numeric = FALSE
    /\ MIN_USER_INTERACTIONS = 1
    /\ MIN_PRODUCT_UNIQUE_USERS = 1
    /\ users_keep = {}
    /\ products_keep = {}
    /\ it = 0
    /\ dense_pc = "start"

\* no explanation is asked for
NoAnnotator ==
    /\ explanation_call = NoExplanationCall
    /\ llm_call = NoLlmCall

\* __init__: nothing is loaded
Init ==
    /\ model_file \in {Absent} \cup {Present(c) : c \in AlsModels}
    /\ mappings_file \in {Absent} \cup {Present(c) : c \in MappingsContents}
    /\ fallback_file \in {Absent} \cup {Present([top_popular_items |-> t]) : t \in PopularTables}
    /\ db \in Databases
    /\ als_model = None
    /\ user_mappings = None
    /\ item_mappings = None
    /\ fallback_data = None
    /\ product_metadata = None
    /\ user_item_matrix = None
    /\ load_result = "not_called"
    /\ request = NoRequest
    /\ result = NoResult
    /\ als_call = NoCall
    /\ recommender \in {"none", "engine"}
    \* a service without a recommender has no engine: the engine's files are
    \* of no account, one choice of them is followed
    /\ recommender = "none" => /\ model_file = Absent
                               /\ mappings_file = Absent
                               /\ fallback_file = Absent
                               /\ db = Unreadable
    /\ service_request = NoServiceRequest
    /\ service_result = NoServiceResult
    /\ NoApi
    /\ NoDense
    /\ NoAnnotator

\* load_models with the matrix built before the fallback table is read
load_models_matrix_first ==
    /\ Idle
    /\ IF ~model_file.present
       THEN /\ load_result' = "false"
            /\ UNCHANGED <<als_model, user_mappings, item_mappings, fallback_data,
                           user_item_matrix>>
       ELSE /\ als_model' = Some(model_file.contents)
            /\ IF ~mappings_file.present
               THEN /\ load_result' = "false"
                    /\ UNCHANGED <<user_mappings, item_mappings, fallback_data,
                                   user_item_matrix>>
               ELSE /\ user_mappings' = Some([to_idx |-> mappings_file.contents.user_to_idx,
                                              from_idx |-> mappings_file.contents.idx_to_user])
                    /\ item_mappings' = Some([to_idx |-> mappings_file.contents.item_to_idx,
                                              from_idx |-> mappings_file.contents.idx_to_item])
                    /\ user_item_matrix' = create_user_item_matrix(mappings_file.contents)
                    /\ IF ~fallback_file.present
                       THEN /\ load_result' = "false"
                            /\ UNCHANGED fallback_data
                       ELSE /\ fallback_data' = Some(fallback_file.contents)
                            /\ load_result' = "true"
    /\ UNCHANGED <<env, product_metadata, request, result, als_call, service, api, dense, annotator>>

\* load_models whose _create_user_item_matrix has no try/except: a matrix
\* that cannot be built ends load_models in its except branch
load_models_matrix_uncaught ==
    /\ Idle
    /\ IF ~model_file.present
       THEN /\ load_result' = "false"
            /\ UNCHANGED <<als_model, user_mappings, item_mappings, fallback_data,
                           user_item_matrix>>
       ELSE /\ als_model' = Some(model_file.contents)
            /\ IF ~mappings_file.present
               THEN /\ load_result' = "false"
                    /\ UNCHANGED <<user_mappings, item_mappings, fallback_data,
                                   user_item_matrix>>
               ELSE /\ user_mappings' = Some([to_idx |-> mappings_file.contents.user_to_idx,
                                              from_idx |-> mappings_file.contents.idx_to_user])
                    /\ item_mappings' = Some([to_idx |-> mappings_file.contents.item_to_idx,
                                              from_idx |-> mappings_file.contents.idx_to_item])
                    /\ IF ~fallback_file.present
                       THEN /\ load_result' = "false"
                            /\ UNCHANGED <<fallback_data, user_item_matrix>>
                       ELSE /\ fallback_data' = Some(fallback_file.contents)
                            /\ user_item_matrix' =
                                   create_user_item_matrix(mappings_file.contents)
                            /\ load_result' =
                                   IF create_user_item_matrix(mappings_file.contents).isNone
                                   THEN "false"
                                   ELSE "true"
    /\ UNCHANGED <<env, product_metadata, request, result, als_call, service, api, dense, annotator>>

\* load_models: the three pickles are read in order; the first one that
\* cannot be opened ends the call in the except branch, which returns False
\* and resets nothing
load_models ==
    /\ Idle
    /\ IF ~model_file.present
       THEN /\ load_result' = "false"
            /\ UNCHANGED <<als_model, user_mappings, item_mappings, fallback_data,
                           user_item_matrix>>
       ELSE /\ als_model' = Some(model_file.contents)
            /\ IF ~mappings_file.present
               THEN /\ load_result' = "false"
                    /\ UNCHANGED <<user_mappings, item_mappings, fallback_data,
                                   user_item_matrix>>
               ELSE /\ user_mappings' = Some([to_idx |-> mappings_file.contents.user_to_idx,
                                              from_idx |-> mappings_file.contents.idx_to_user])
                    /\ item_mappings' = Some([to_idx |-> mappings_file.contents.item_to_idx,
                                              from_idx |-> mappings_file.contents.idx_to_item])
                    /\ IF ~fallback_file.present
                       THEN /\ load_result' = "false"
                            /\ UNCHANGED <<fallback_data, user_item_matrix>>
                       ELSE /\ fallback_data' = Some(fallback_file.contents)
                            /\ user_item_matrix' =
                                   create_user_item_matrix(mappings_file.contents)
                            /\ load_result' = "true"
    /\ UNCHANGED <<env, product_metadata, request, result, als_call, service, api, dense, annotator>>

\* load_product_metadata, called once load_models has returned True
\* (initialize_recommendation_system); a database that cannot be read
\* leaves product_metadata as it is
load_product_metadata ==
    /\ Idle
    /\ load_result = "true"
    /\ product_metadata' = IF db.readable THEN Some(db.products) ELSE product_metadata
    /\ UNCHANGED <<env, als_model, user_mappings, item_mappings, fallback_data,
                   user_item_matrix, load_result, request, result, als_call,
                   service, api, dense, annotator>>

\* a request whose popularity step removes from the fallback table the items
\* it serves
GetRecommendations_consuming ==
    /\ Idle
    /\ \E user_id \in Users, top_k \in 1..MaxK, include_metadata \in BOOLEAN,
       raises_inside \in BOOLEAN :
        \E out \in get_recommendations(user_id, top_k, include_metadata, raises_inside) :
            /\ request' = [user_id |-> user_id, top_k |-> top_k,
                           include_metadata |-> include_metadata]
            /\ result' = out.ret
            /\ als_call' = out.als
            /\ fallback_data' =
                  IF fallback_data.isNone
                  THEN fallback_data
                  ELSE Some([top_popular_items |->
                          SelectSeq(fallback_data.val.top_popular_items,
                              LAMBDA item :
                                  \A j \in 1..Len(out.ret.recommendations) :
                                      out.ret.recommendations[j].product_id # item)])
            /\ UNCHANGED <<env, als_model, user_mappings, item_mappings,
                           product_metadata, user_item_matrix, load_result, service,
                           api, dense, annotator>>

\* one request: get_recommendations(user_id, top_k, include_metadata)
GetRecommendations ==
    /\ Idle
    /\ \E user_id \in Users, top_k \in 1..MaxK, include_metadata \in BOOLEAN,
       raises_inside \in BOOLEAN :
        \E out \in get_recommendations(user_id, top_k, include_metadata, raises_inside) :
            /\ request' = [user_id |-> user_id, top_k |-> top_k,
                           include_metadata |-> include_metadata]
            /\ result' = out.ret
            /\ als_call' = out.als
            /\ UNCHANGED <<env, engine, load_result, service, api, dense, annotator>>

\* one request to the service: RecommendationService.get_recommendations(
\* user_id, num_recommendations, use_llm); with a recommender it calls the
\* engine's get_recommendations with include_metadata=True
ServiceGetRecommendations ==
    /\ Idle
    /\ \E user_id \in Users, num_recommendations \in 1..MaxK, llm_explains \in BOOLEAN :
        /\ service_request' = [user_id |-> user_id,
                               num_recommendations |-> num_recommendations]
        /\ IF recommender = "none"
           THEN /\ service_result' = _get_fallback_recommendations(
                                         user_id, num_recommendations, llm_explains)
                /\ UNCHANGED <<request, result, als_call>>
           ELSE \E raises_inside \in BOOLEAN :
                  \E out \in get_recommendations(user_id, num_recommendations, TRUE,
                                                 raises_inside) :
                    /\ request' = [user_id |-> user_id, top_k |-> num_recommendations,
                                   include_metadata |-> TRUE]
                    /\ result' = out.ret
                    /\ als_call' = out.als
                    /\ service_result' = AfterEngineCall(out.ret, user_id,
                                             num_recommendations, llm_explains)
    /\ UNCHANGED <<env, engine, load_result, recommender, api, dense, annotator>>

\* the caller takes the returned value (or the exception); the result is a
\* response value with no lifecycle of its own
Respond ==
    /\ ~Idle
    /\ request' = NoRequest
    /\ result' = NoResult
    /\ als_call' = NoCall
    /\ service_request' = NoServiceRequest
    /\ service_result' = NoServiceResult
    /\ UNCHANGED <<env, engine, load_result, recommender, api, dense, annotator>>

Next ==
    \/ load_models
    \/ load_product_metadata
    \/ GetRecommendations
    \/ ServiceGetRecommendations
    \/ Respond

Spec == Init /\ [][Next]_vars

----------------------------------------------------------------------------
(* The API process                                                         *)

\* the most RecommendationService objects one run constructs
MaxServices == 4

\* the model directory as the API finds it: without artifacts, or with them.
\* No service calls load_models, so the artifacts are never read.
ModelDirs ==
    {<<Absent, Absent, Absent>>,
     <<Present(CHOOSE c \in AlsModels : c.ranking[1] = 0),
       Present(CHOOSE c \in MappingsContents : "U1" \in DOMAIN c.user_to_idx),
       Present([top_popular_items |->
                  CHOOSE t \in PopularTables : Len(t) = NumItems])>>}

\* the module is imported: rec_service = None, no engine is loaded
ApiInit ==
    /\ \E model_dir \in ModelDirs :
          /\ model_file = model_dir[1]
          /\ mappings_file = model_dir[2]
          /\ fallback_file = model_dir[3]
    /\ db \in Databases
    /\ als_model = None
    /\ user_mappings = None
    /\ item_mappings = None
    /\ fallback_data = None
    /\ product_metadata = None
    /\ user_item_matrix = None
    /\ load_result = "not_called"
    /\ request = NoRequest
    /\ result = NoResult
    /\ als_call = NoCall
    /\ recommender \in {"none", "engine"}
    /\ service_request = NoServiceRequest
    /\ service_result = NoServiceResult
    /\ NoApi
    /\ NoDense
    /\ NoAnnotator

\* lifespan, up to its yield: the global service is constructed
lifespan ==
    /\ rec_service = 0
    /\ instances < MaxServices
    /\ instances' = instances + 1
    /\ rec_service' = instances + 1
    /\ UNCHANGED <<env, engine, load_result, request, result, als_call, service,
                   served_by, response, api_request, dense, annotator>>

\* GET /recommendations/{user_id}: Depends(get_recommendation_service)
\* constructs a RecommendationService, then the handler body runs with it
GetUserRecommendations ==
    /\ rec_service # 0
    /\ instances < MaxServices
    /\ \E user_id \in ApiUserIds, limit \in Limits, llm_explains \in BOOLEAN :
          \E out \in get_user_recommendations(user_id, limit, llm_explains) :
              /\ response' = out.response
              /\ api_request' = [user_id |-> user_id, limit |-> limit,
                                 service_called |-> out.service_called]
    /\ instances' = instances + 1
    /\ served_by' = instances + 1
    /\ UNCHANGED <<env, engine, load_result, request, result, als_call, service,
                   rec_service, dense, annotator>>

\* GET /health: the only reader of the global rec_service
health_check ==
    /\ rec_service # 0
    /\ response' = [code |-> 200,
                    detail |-> IF recommender # "none" THEN "available" ELSE "unavailable",
                    strategy |-> "", product_ids |-> <<>>]
    /\ UNCHANGED <<env, engine, load_result, request, result, als_call, service,
                   rec_service, instances, served_by, api_request, dense, annotator>>

ApiNext ==
    \/ lifespan
    \/ GetUserRecommendations
    \/ health_check

ApiSpec == ApiInit /\ [][ApiNext]_vars

----------------------------------------------------------------------------
(* The run of 3_make_dense_dataset.py                                      *)

DenseInit ==
    /\ model_file = Absent
    /\ mappings_file = Absent
    /\ fallback_file = Absent
    /\ db = Unreadable
    /\ als_model = None
    /\ user_mappings = None
    /\ item_mappings = None
    /\ fallback_data = None
    /\ product_metadata = None
    /\ user_item_matrix = None
    /\ load_result = "not_called"
    /\ request = NoRequest
    /\ result = NoResult
    /\ als_call = NoCall
    /\ recommender = "none"
    /\ service_request = NoServiceRequest
    /\ service_result = NoServiceResult
    /\ NoApi
    /\ interaction_rows \in [DenseUsers \X DenseProducts -> 0..MaxDup]
    /\ ids_numeric \in BOOLEAN
    /\ MIN_USER_INTERACTIONS \in 1..MaxThreshold
    /\ MIN_PRODUCT_UNIQUE_USERS \in 1..MaxThreshold
    /\ users_keep = {}
    /\ products_keep = {}
    /\ it = 0
    /\ dense_pc = "start"
    /\ NoAnnotator

\* lines 284-294: the scan without keep sets, the first keep sets, it = 0
InitialKeepSets ==
    /\ dense_pc = "start"
    /\ LET maps == compute_global_maps(FALSE)
       IN  /\ users_keep' = KeepUsers(maps)
           /\ products_keep' = KeepProducts(maps)
    /\ it' = 0
    /\ dense_pc' = "loop"
    /\ UNCHANGED <<env, engine, load_result, request, result, als_call, service,
                   api, dense_env, annotator>>

\* one pass of the "while True" body (lines 295-314)
PruneIteration ==
    /\ dense_pc = "loop"
    /\ it < MaxIt
    /\ it' = it + 1
    /\ LET maps == compute_global_maps(TRUE)
           new_users_keep == KeepUsers(maps)
           new_products_keep == KeepProducts(maps)
       IN  IF Converged(new_users_keep, new_products_keep)
           THEN /\ dense_pc' = "converged"
                /\ UNCHANGED <<users_keep, products_keep>>
           ELSE /\ users_keep' = new_users_keep
                /\ products_keep' = new_products_keep
                /\ dense_pc' = IF new_users_keep = {} \/ new_products_keep = {}
                               THEN "emptied"
                               ELSE "loop"
    /\ UNCHANGED <<env, engine, load_result, request, result, als_call, service,
                   api, dense_env, annotator>>

DenseNext ==
    \/ InitialKeepSets
    \/ PruneIteration

\* the script is one sequential run: a step that can be taken is taken
DenseSpec == DenseInit /\ [][DenseNext]_vars /\ WF_vars(DenseNext)

----------------------------------------------------------------------------
(* The engine with its three artifacts and no interaction matrix           *)

DegradedInit ==
    /\ model_file \in {Present(c) : c \in AlsModels}
    /\ mappings_file \in {Present(c) : c \in MappingsContents}
    /\ fallback_file \in {Present([top_popular_items |-> t]) : t \in PopularTables}
    /\ db \in DegradedDatabases
    /\ als_model = None
    /\ user_mappings = None
    /\ item_mappings = None
    /\ fallback_data = None
    /\ product_metadata = None
    /\ user_item_matrix = None
    /\ load_result = "not_called"
    /\ request = NoRequest
    /\ result = NoResult
    /\ als_call = NoCall
    /\ recommender = "engine"
    /\ service_request = NoServiceRequest
    /\ service_result = NoServiceResult
    /\ NoApi
    /\ NoDense
    /\ NoAnnotator

DegradedSpec == DegradedInit /\ [][Next]_vars

----------------------------------------------------------------------------
(* The engine over a wide products table, asked for long lists             *)

\* the top_k of the requests: short, middling, and as long as the table
LargeKs == {2, NumItems + 2, 4 * NumItems}

WideInit ==
    /\ model_file = Present(CHOOSE c \in AlsModels : c.ranking[1] = 0)
    /\ mappings_file \in {Present(c) : c \in MappingsContents}
    /\ fallback_file \in {Present([top_popular_items |-> t]) : t \in PopularTables}
    /\ db \in WideDatabases
    /\ als_model = None
    /\ user_mappings = None
    /\ item_mappings = None
    /\ fallback_data = None
    /\ product_metadata = None
    /\ user_item_matrix = None
    /\ load_result = "not_called"
    /\ request = NoRequest
    /\ result = NoResult
    /\ als_call = NoCall
    /\ recommender = "engine"
    /\ service_request = NoServiceRequest
    /\ service_result = NoServiceResult
    /\ NoApi
    /\ NoDense
    /\ NoAnnotator

\* one request get_recommendations(user_id, top_k, include_metadata) with a
\* top_k of LargeKs
GetManyRecommendations ==
    /\ Idle
    /\ \E user_id \in Users, top_k \in LargeKs, include_metadata \in BOOLEAN,
       raises_inside \in BOOLEAN :
        \E out \in get_recommendations(user_id, top_k, include_metadata, raises_inside) :
            /\ request' = [user_id |-> user_id, top_k |-> top_k,
                           include_metadata |-> include_metadata]
            /\ result' = out.ret
            /\ als_call' = out.als
            /\ UNCHANGED <<env, engine, load_result, service, api, dense, annotator>>

WideNext ==
    \/ load_models
    \/ load_product_metadata
    \/ GetManyRecommendations
    \/ Respond

WideSpec == WideInit /\ [][WideNext]_vars

----------------------------------------------------------------------------
(* Calls of the explanation functions                                      *)

AnnotatorInit ==
    /\ model_file = Absent
    /\ mappings_file = Absent
    /\ fallback_file = Absent
    /\ db = Unreadable
    /\ als_model = None
    /\ user_mappings = None
    /\ item_mappings = None
    /\ fallback_data = None
    /\ product_metadata = None
    /\ user_item_matrix = None
    /\ load_result = "not_called"
    /\ request = NoRequest
    /\ result = NoResult
    /\ als_call = NoCall
    /\ recommender = "none"
    /\ service_request = NoServiceRequest
    /\ service_result = NoServiceResult
    /\ NoApi
    /\ NoDense
    /\ NoAnnotator

\* one call _generate_explanation(strategy, category)
GenerateExplanation ==
    /\ NoAnnotator
    /\ \E strategy \in ExplainedStrategies, category \in ExplainedCategories :
          LET out == _generate_explanation(strategy, category)
          IN  explanation_call' = [called |-> TRUE, strategy |-> strategy,
                                   category |-> category, raised |-> out.raised,
                                   text |-> out.text]
    /\ UNCHANGED <<env, engine, load_result, request, result, als_call, service,
                   api, dense, llm_call>>

\* one call get_llm_explanation(user_id, recommendations, user_history)
GetLlmExplanation ==
    /\ NoAnnotator
    /\ \E recommendations \in UNION {[1..n -> LlmRecs] : n \in 0..MaxRecs},
          history_malformed \in BOOLEAN, api_outcome \in ApiOutcomes :
          LET out == get_llm_explanation(recommendations, history_malformed, api_outcome)
          IN  llm_call' = [called |-> TRUE, recommendations |-> recommendations,
                           raised |-> out.raised, explanations |-> out.explanations]
    /\ UNCHANGED <<env, engine, load_result, request, result, als_call, service,
                   api, dense, explanation_call>>

\* the caller takes what the call returned or raised
ExplanationTaken ==
    /\ ~NoAnnotator
    /\ explanation_call' = NoExplanationCall
    /\ llm_call' = NoLlmCall
    /\ UNCHANGED <<env, engine, load_result, request, result, als_call, service,
                   api, dense>>

AnnotatorNext ==
    \/ GenerateExplanation
    \/ GetLlmExplanation
    \/ ExplanationTaken

AnnotatorSpec == AnnotatorInit /\ [][AnnotatorNext]_vars

----------------------------------------------------------------------------
(* Properties                                                              *)

\* the history of the user of the call in progress
History == get_user_history(request.user_id)

\* the product ids of the returned list, in order
ProductIds == [j \in 1..Len(result.recommendations) |->
                  result.recommendations[j].product_id]

\* the confidences of the returned list, in order
Confidences == [j \in 1..Len(result.recommendations) |->
                   result.recommendations[j].confidence]

ReturnedResult == result.status = "returned"

\* C1, as claimed: whichever strategy serves the request, no returned
\* product_id is an item of the user's history.
C1_ExclusionEveryStrategy ==
    ReturnedResult => \A j \in 1..Len(ProductIds) : ProductIds[j] \notin Range(History)

\* C1, amended: when the fallback cascade serves the request (strategy
\* "hybrid_fallback"), no returned product_id is an item of the user's
\* history; the collaborative path filters nothing
\* (filter_already_liked_items=False).
C1_FallbackExcludesHistory ==
    (ReturnedResult /\ result.strategy = "hybrid_fallback")
        => \A j \in 1..Len(ProductIds) : ProductIds[j] \notin Range(History)

\* a fallback result with candidates, for a user whose history holds a
\* popular item and who still gets popular items
C1_Witness ==
    /\ ReturnedResult
    /\ result.strategy = "hybrid_fallback"
    /\ Range(History) \cap Range(fallback_data.val.top_popular_items) # {}
    /\ Range(ProductIds) \cap Range(fallback_data.val.top_popular_items) # {}

\* the call in progress has ended, by a return or by an exception
CallEnded == result.status # "none"

\* the user of the call in progress has an index in the loaded user mapping
Mapped ==
    /\ ~user_mappings.isNone
    /\ request.user_id \in DOMAIN user_mappings.val.to_idx

\* C2: for a user with at least 5 history items who is in the user mapping,
\* a collaborative call that gives a non-empty list makes get_recommendations
\* return strategy "als_collaborative" with exactly that list's items, in
\* its order (scores non-increasing).
C2_CollaborativeResultServed ==
    (CallEnded /\ Len(History) >= min_history_threshold /\ Mapped
     /\ als_call.recs # <<>>)
        => /\ ReturnedResult
           /\ result.strategy = "als_collaborative"
           /\ ProductIds = [j \in 1..Len(als_call.recs) |-> als_call.recs[j][1]]
           /\ Confidences = [j \in 1..Len(als_call.recs) |-> als_call.recs[j][2]]
           /\ \A j \in 1..(Len(Confidences) - 1) : Confidences[j] >= Confidences[j + 1]

C2_Witness ==
    /\ ReturnedResult
    /\ Len(History) >= min_history_threshold
    /\ Mapped
    /\ Len(als_call.recs) >= 2
    /\ result.strategy = "als_collaborative"

\* C3: a user_id that is not in the user mapping never gets strategy
\* "als_collaborative", whatever the length of the history; what is returned
\* comes from the fallback cascade.
C3_UnmappedNeverCollaborative ==
    (CallEnded /\ ~Mapped)
        => /\ result.strategy # "als_collaborative"
           /\ ReturnedResult => result.strategy = "hybrid_fallback"

C3_Witness ==
    /\ ReturnedResult
    /\ ~Mapped
    /\ Len(History) >= min_history_threshold
    /\ result.strategy = "hybrid_fallback"
    /\ ~user_item_matrix.isNone

\* C4: with fewer than 5 history items the collaborative call is not made,
\* even for a user in the mapping, and what is returned has strategy
\* "hybrid_fallback"; with exactly 5 items a mapped user is eligible (the
\* call is made).
C4_ThresholdGate ==
    CallEnded =>
        /\ Len(History) < min_history_threshold
              => /\ ~als_call.called
                 /\ ReturnedResult => result.strategy = "hybrid_fallback"
                 /\ load_result = "true" => ReturnedResult
        /\ (Len(History) = min_history_threshold /\ Mapped) => als_call.called

C4_Witness ==
    /\ ReturnedResult
    /\ Mapped
    /\ Len(History) = min_history_threshold - 1
    /\ ~user_item_matrix.isNone
    /\ result.strategy = "hybrid_fallback"

\* C5, as claimed: when the loaded fallback table has at least one popularity
\* item, a call with k >= 1 returns at least one candidate.
C5_NeverEmpty ==
    (ReturnedResult /\ request.top_k >= 1 /\ ~fallback_data.isNone
     /\ Len(fallback_data.val.top_popular_items) >= 1)
        => Len(result.recommendations) >= 1

\* C6, as claimed: get_recommendations never raises, whether load_models
\* succeeded, failed or was never called.
C6_NeverRaises == result.status # "raised"

\* C7: when the collaborative call of an eligible user ends with the empty
\* list (the scoring call raised, or gave nothing), get_recommendations gives
\* exactly what the fallback cascade gives for that history, as for an
\* ineligible user; once load_models has succeeded this is a returned result
\* with strategy "hybrid_fallback".
C7_ScoringFailureFallsThrough ==
    (CallEnded /\ als_call.called /\ als_call.recs = <<>>)
        => /\ result \in Strategy2(request.user_id, request.top_k,
                                   request.include_metadata, History)
           /\ load_result = "true"
                 => (ReturnedResult /\ result.strategy = "hybrid_fallback")

C7_Witness ==
    /\ ReturnedResult
    /\ als_call.called
    /\ als_call.recs = <<>>
    /\ ~user_item_matrix.isNone
    /\ Len(result.recommendations) >= 1

\* C8, as claimed: after load_models either the three artifacts are set and
\* is_available() is true, or (load_models returned False) is_available() is
\* false and no artifact is set.
C8_AllOrNothing ==
    /\ load_result = "true"
          => (is_available /\ ~fallback_data.isNone)
    /\ load_result = "false"
          => /\ ~is_available
             /\ als_model.isNone
             /\ user_mappings.isNone
             /\ item_mappings.isNone
             /\ fallback_data.isNone

\* C9: once load_models has failed on a missing artifact, no call of
\* get_recommendations, for any user and any k, yields strategy
\* "als_collaborative".
C9_NoCollaborativeAfterFailedLoad ==
    (load_result = "false" /\ CallEnded) => result.strategy # "als_collaborative"

\* only the fallback table is missing, and the user has the history and the
\* index that make the collaborative call happen
C9_Witness ==
    /\ load_result = "false"
    /\ CallEnded
    /\ Mapped
    /\ Len(History) >= min_history_threshold
    /\ als_call.called

\* the case of C10: a user without history and without index asks for k items
\* of a popularity table that has at least k
C10_Case ==
    /\ ReturnedResult
    /\ History = <<>>
    /\ ~Mapped
    /\ request.top_k >= 1
    /\ request.top_k <= 20
    /\ Len(fallback_data.val.top_popular_items) >= request.top_k

\* the confidences 1.0, 0.9, ... floored at 0.1 (in tenths) of a list
DecayingConfidences ==
    \A j \in 1..Len(Confidences) : Confidences[j] = Max(10 - (j - 1), 1)

\* C10, as claimed: such a user gets exactly k items with strategy
\* "hybrid_fallback" and confidences 1.0 - 0.1*i floored at 0.1.
C10_ExactlyK ==
    C10_Case
        => /\ result.strategy = "hybrid_fallback"
           /\ Len(result.recommendations) = request.top_k
           /\ DecayingConfidences

\* C10, amended: such a user gets exactly min(k, max(6, k div 2)) items, the
\* first of the popularity table in table order, with strategy
\* "hybrid_fallback" and confidences 1.0 - 0.1*i floored at 0.1; this is k
\* items for k <= 6 and fewer than k for k >= 7.
C10_PopularityPrefix ==
    C10_Case
        => /\ result.strategy = "hybrid_fallback"
           /\ Len(result.recommendations)
                 = Min(request.top_k, Max(6, request.top_k \div 2))
           /\ ProductIds = Take(fallback_data.val.top_popular_items,
                                Len(result.recommendations))
           /\ DecayingConfidences

C10_Witness ==
    /\ C10_Case
    /\ request.top_k = 5
    /\ Confidences = <<10, 9, 8, 7, 6>>

SameCalls(include_metadata) ==
    {o \in UNION {get_recommendations(request.user_id, request.top_k,
                                      include_metadata, r) : r \in BOOLEAN} :
        o.als = als_call}

\* C12, as claimed: a second call with the same user_id, k and
\* include_metadata against unchanged artifacts, history and metadata gives
\* the same strategy and the same product ids in the same order, also when
\* two categories are equally frequent in the recent history.
C12_Deterministic ==
    ReturnedResult =>
        \A o \in SameCalls(request.include_metadata) :
            /\ o.ret.strategy = result.strategy
            /\ [j \in 1..Len(o.ret.recommendations) |->
                   o.ret.recommendations[j].product_id] = ProductIds

\* the call in progress was asked for metadata and the metadata is loaded
Enriched ==
    /\ ReturnedResult
    /\ request.include_metadata
    /\ ~product_metadata.isNone

PopularityPortion ==
    Min(request.top_k,
        Len(get_popularity_recommendations(Max(6, request.top_k \div 2), History)))

FallbackResult == ReturnedResult /\ result.strategy = "hybrid_fallback"

\* C14: in the popularity portion of every fallback result the confidence
\* does not increase with the rank and lies in [0.1, 1.0].
C14_PopularityConfidenceMonotone ==
    FallbackResult =>
        /\ \A j \in 1..PopularityPortion :
              Confidences[j] >= 1 /\ Confidences[j] <= 10
        /\ \A j \in 1..(PopularityPortion - 1) :
              Confidences[j] >= Confidences[j + 1]

C14_Witness ==
    /\ FallbackResult
    /\ PopularityPortion >= 2
    /\ Len(result.recommendations) > PopularityPortion

\* a call of RecommendationService.get_recommendations has ended
ServiceEnded == service_result.status # "none"

\* the part of a static product that no explanation call changes
StaticFields(rec) ==
    [product_id |-> rec.product_id, title |-> rec.title, category |-> rec.category,
     price |-> rec.price, rating |-> rec.rating, confidence |-> rec.confidence]

\* C15: when the service has no engine (recommender is None) or the engine
\* call raises, RecommendationService.get_recommendations does not raise and
\* returns the static list cut to k with strategy "fallback"; the list is
\* not empty.
C15_StaticFloor ==
    (ServiceEnded /\ (recommender = "none" \/ result.status = "raised"))
        => /\ service_result.status = "returned"
           /\ service_result.strategy = "fallback"
           /\ Len(service_result.recommendations) =
                  Min(service_request.num_recommendations, Len(fallback_products))
           /\ Len(service_result.recommendations) >= 1
           /\ \A j \in 1..Len(service_result.recommendations) :
                  StaticFields(service_result.recommendations[j]) =
                      StaticFields(fallback_products[j])

\* the engine call of a service request raised and one static product was
\* asked for
C15_Witness ==
    /\ ServiceEnded
    /\ recommender = "engine"
    /\ result.status = "raised"
    /\ service_request.num_recommendations = 1
    /\ Len(service_result.recommendations) = 1

\* C16, as claimed: whenever the engine returns a non-empty candidate list,
\* the service returns the same product ids in the same order with the
\* engine's strategy tag.
C16_ThinAdapter ==
    (ServiceEnded /\ ReturnedResult /\ Len(result.recommendations) > 0)
        => /\ service_result.status = "returned"
           /\ service_result.strategy = result.strategy
           /\ [j \in 1..Len(service_result.recommendations) |->
                  service_result.recommendations[j].product_id] = ProductIds

C17_OneInstance ==
    served_by # 0 => (served_by = rec_service /\ instances = 1)

\* the pruning loop has exited
DenseExited == dense_pc \in {"converged", "emptied"}

\* C19: the pruning loop exits; from one iteration to the next the keep
\* sets only shrink; it exits with one keep set empty, or with both keep
\* sets equal to what one more scan gives.
C19_FilterTerminates ==
    /\ <>DenseExited
    /\ [][dense_pc = "loop" => /\ users_keep' \subseteq users_keep
                               /\ products_keep' \subseteq products_keep]_vars
    /\ [](dense_pc = "emptied" => (users_keep = {} \/ products_keep = {}))
    /\ [](dense_pc = "converged" =>
            Converged(KeepUsers(compute_global_maps(TRUE)),
                      KeepProducts(compute_global_maps(TRUE))))

\* the loop exited by convergence in its second iteration or later, with
\* users and products left
C19_Witness ==
    /\ dense_pc = "converged"
    /\ it >= 2
    /\ users_keep # {}
    /\ products_keep # {}

\* the popular items that are not in the history, in table order
PopularNotInHistory ==
    SelectSeq(fallback_data.val.top_popular_items,
              LAMBDA item : \A i \in 1..Len(History) : History[i] # item)

\* C20: the popularity step gives the first max(6, k div 2) items of the
\* popularity list, in table order, after removal of every history item, the
\* one at 0-based rank i with confidence max(1.0 - 0.1*i, 0.1); they lead the
\* fallback result (cut to k).
C20_PopularityStep ==
    FallbackResult =>
        LET expected == Take(PopularNotInHistory, Max(6, request.top_k \div 2))
            n == Min(Len(expected), request.top_k)
        IN  /\ Len(result.recommendations) >= n
            /\ \A j \in 1..n :
                  /\ ProductIds[j] = expected[j]
                  /\ Confidences[j] = Max(10 - (j - 1), 1)
            /\ \A j \in (n + 1)..Len(result.recommendations) :
                  ProductIds[j] \notin Range(expected)

\* a history item is skipped inside the table and later items move up
C20_Witness ==
    /\ FallbackResult
    /\ Len(fallback_data.val.top_popular_items) > 6
    /\ Range(History) = {2}
    /\ request.top_k >= 3
    /\ ProductIds[2] = 3

\* C24, as claimed: every stored entry of the matrix comes from an
\* interaction whose user_id maps to its user index and whose product_id
\* maps to its item index, the stored value is that interaction's rating,
\* and interactions outside the mappings do not fail the build.
C24_MatrixFromInteractions ==
    /\ (load_result = "true" /\ db.readable) => ~user_item_matrix.isNone
    /\ ~user_item_matrix.isNone =>
          \A pair \in DOMAIN user_item_matrix.val :
              \E u \in DOMAIN user_mappings.val.to_idx :
                  \E i \in 1..Len(db.interactions[u]) :
                      /\ user_mappings.val.to_idx[u] = pair[1]
                      /\ db.interactions[u][i] \in DOMAIN item_mappings.val.to_idx
                      /\ item_mappings.val.to_idx[db.interactions[u][i]] = pair[2]
                      /\ user_item_matrix.val[pair] = RowRating(i)

\* the category that is most frequent in the list and, among those, seen
\* first
FirstSeenMostFrequent(user_categories) ==
    LET best == PreferredCategories(user_categories)
        first == CHOOSE i \in 1..Len(user_categories) :
                    /\ user_categories[i] \in best
                    /\ \A j \in 1..(i - 1) : user_categories[j] \notin best
    IN  user_categories[first]

\* C22, as claimed: the category candidates of a fallback result are of the
\* most frequent category of the user's 5 most recent history items, and
\* of the first seen one when several are equally frequent.
C22_FirstSeenTieBreak ==
    (FallbackResult /\ ~product_metadata.isNone /\ UserCategories(History) # <<>>)
        => \A j \in (PopularityPortion + 1)..Len(result.recommendations) :
              product_metadata.val[ProductIds[j]].main_category =
                  FirstSeenMostFrequent(UserCategories(History))

\* the popularity candidates of the call in progress
PopRecs == get_popularity_recommendations(Max(6, request.top_k \div 2), History)

\* C23: in a fallback result the popularity candidates come first, in
\* their order, the category candidates after all of them, the list has at
\* most k entries, and no product_id occurs twice.
C23_PopularityThenCategory ==
    FallbackResult =>
        /\ Len(result.recommendations) <= request.top_k
        /\ \A j \in 1..PopularityPortion :
              /\ ProductIds[j] = PopRecs[j][1]
              /\ Confidences[j] = PopRecs[j][2]
        /\ Len(result.recommendations) > PopularityPortion
              => PopularityPortion = Len(PopRecs)
        /\ \A j \in (PopularityPortion + 1)..Len(result.recommendations) :
              \A i \in 1..Len(PopRecs) : ProductIds[j] # PopRecs[i][1]
        /\ \A i, j \in 1..Len(result.recommendations) :
              i # j => ProductIds[i] # ProductIds[j]

\* two popularity candidates are followed by a category candidate, and a
\* product of its category is among the popularity candidates
C23_Witness ==
    /\ FallbackResult
    /\ PopularityPortion >= 2
    /\ Len(result.recommendations) > PopularityPortion
    /\ \E i \in 1..PopularityPortion :
          product_metadata.val[ProductIds[i]].main_category =
              product_metadata.val[ProductIds[PopularityPortion + 1]].main_category

\* C29: a returned result has strategy "als_collaborative" or
\* "hybrid_fallback", and its user_history_size is the number of items of
\* the user's history.
C29_StrategyTagAndHistorySize ==
    ReturnedResult =>
        /\ result.strategy \in {"als_collaborative", "hybrid_fallback"}
        /\ result.user_history_size = Len(History)

\* results of both strategies whose history and list differ in length
C29_Witness ==
    /\ ReturnedResult
    /\ result.strategy = "als_collaborative"
    /\ Len(History) # Len(result.recommendations)
    /\ result.user_history_size = MaxHist

\* C25: _generate_explanation returns a text and never raises; a strategy
\* without a template gets the neutral message, and with a template the
\* category is put into it whatever it is, 'product' and 'Unknown' too.
C25_ExplanationTotal ==
    explanation_call.called =>
        /\ ~explanation_call.raised
        /\ explanation_call.text # <<>>
        /\ explanation_call.strategy \notin TemplateStrategies
              => explanation_call.text =
                     <<"Recommended product based on your preferences">>
        /\ explanation_call.strategy \in TemplateStrategies
              => /\ explanation_call.text =
                        Template(explanation_call.strategy, explanation_call.category)
                 /\ explanation_call.category \in Range(explanation_call.text)

\* a strategy without a template was explained
C25_Witness ==
    /\ explanation_call.called
    /\ explanation_call.strategy = "unknown"
    /\ explanation_call.category = "product"
    /\ ~explanation_call.raised

\* every recommendation of the call has a product_id
WellFormedRecs ==
    \A i \in 1..Len(llm_call.recommendations) :
        llm_call.recommendations[i].product_id # 0

\* C27: for recommendations that have a product_id, get_llm_explanation
\* does not raise and returns one explanation per recommendation, the i-th
\* with the i-th product_id, whatever the reply, the API call and the
\* prompt building do; no recommendations give no explanations.
C27_OneExplanationEach ==
    (llm_call.called /\ WellFormedRecs) =>
        /\ ~llm_call.raised
        /\ Len(llm_call.explanations) = Len(llm_call.recommendations)
        /\ \A i \in 1..Len(llm_call.recommendations) :
              llm_call.explanations[i].product_id =
                  llm_call.recommendations[i].product_id

\* the reply had fewer lines than there were recommendations and the last
\* recommendation got the default sentence
C27_Witness ==
    /\ llm_call.called
    /\ WellFormedRecs
    /\ Len(llm_call.recommendations) = MaxRecs
    /\ llm_call.explanations[1].explanation = "024"
    /\ llm_call.explanations[MaxRecs].explanation =
           "Recommended based on your preferences and product quality."

\* the rows of a user whose product is kept
KeptRows(u) ==
    SumRows({pair \in DenseUsers \X DenseProducts :
                pair[1] = u /\ pair[2] \in products_keep}, interaction_rows)

\* the kept users that have a row with a product
KeptUsersOf(p) == {u \in users_keep : interaction_rows[<<u, p>>] > 0}

\* C26: after an exit by convergence, counting only the rows whose user and
\* product are both kept, every kept user has at least
\* MIN_USER_INTERACTIONS rows and every kept product has at least
\* MIN_PRODUCT_UNIQUE_USERS distinct kept users.
C26_KeepSetsFixedPoint ==
    dense_pc = "converged" =>
        /\ \A u \in users_keep : KeptRows(u) >= MIN_USER_INTERACTIONS
        /\ \A p \in products_keep :
              Cardinality(KeptUsersOf(p)) >= MIN_PRODUCT_UNIQUE_USERS

\* the loop converged on non-empty keep sets after dropping a user and a
\* product that have rows
C26_Witness ==
    /\ dense_pc = "converged"
    /\ users_keep # {}
    /\ products_keep # {}
    /\ \E u \in DenseUsers \ users_keep, p \in DenseProducts :
          interaction_rows[<<u, p>>] > 0
    /\ \E u \in DenseUsers, p \in DenseProducts \ products_keep :
          interaction_rows[<<u, p>>] > 0

\* the last request's user_id is empty once stripped, or its limit is
\* outside 1..20
InvalidRequest ==
    \/ strip(api_request.user_id) = ""
    \/ api_request.limit < 1
    \/ api_request.limit > MaxLimit

CategoryPortion == SubSeq(ProductIds, PopularityPortion + 1, Len(ProductIds))

\* the rating and the category of a product in the loaded metadata
RatingOf(p) == product_metadata.val[p].average_rating

CategoryOf(p) == product_metadata.val[p].main_category

\* C21: the entries of a fallback result after the popularity candidates
\* are at most k div 3, and there are none when the history is empty or no
\* metadata is loaded; they are the best rated products of one most
\* frequent category of the recent history that are neither in the history
\* nor among the popularity candidates, in descending rating order, and the
\* one at 0-based rank i has confidence max(0.8 - 0.1*i, 0.2).
C21_CategoryStep ==
    FallbackResult =>
        /\ Len(CategoryPortion) <= request.top_k \div 3
        /\ (History = <<>> \/ product_metadata.isNone) => CategoryPortion = <<>>
        /\ CategoryPortion # <<>> =>
              /\ CategoryOf(CategoryPortion[1]) \in
                     PreferredCategories(UserCategories(History))
              /\ \A i \in 1..Len(CategoryPortion) :
                    /\ CategoryOf(CategoryPortion[i]) = CategoryOf(CategoryPortion[1])
                    /\ RatingOf(CategoryPortion[i]) # NaN
                    /\ CategoryPortion[i] \notin Range(History)
                    /\ \A j \in 1..Len(PopRecs) : CategoryPortion[i] # PopRecs[j][1]
                    /\ Confidences[PopularityPortion + i] = Max(8 - (i - 1), 2)
                    /\ i < Len(CategoryPortion) =>
                          RatingOf(CategoryPortion[i]) >= RatingOf(CategoryPortion[i + 1])
                    /\ \A q \in DOMAIN product_metadata.val :
                          (/\ CategoryOf(q) = CategoryOf(CategoryPortion[1])
                           /\ RatingOf(q) > RatingOf(CategoryPortion[i]))
                          => \/ q \in Range(CategoryPortion)
                             \/ q \in Range(History)
                             \/ \E j \in 1..Len(PopRecs) : q = PopRecs[j][1]

\* popularity candidates are followed by nine or more category candidates,
\* the last ones at the floor of the confidence
C21_Witness ==
    /\ FallbackResult
    /\ PopularityPortion >= 1
    /\ Len(CategoryPortion) >= 9
    /\ Confidences[PopularityPortion + 7] = 2
    /\ Confidences[PopularityPortion + 9] = 2
    /\ History # <<>>

\* C30: with the three artifacts present and a database from which the
\* matrix cannot be built, load_models returns True and leaves
\* user_item_matrix None, and every get_recommendations call after it
\* returns, with strategy "hybrid_fallback".
C30_DegradedModeServes ==
    /\ load_result # "false"
    /\ load_result = "true" =>
          /\ user_item_matrix.isNone
          /\ ~als_model.isNone /\ ~user_mappings.isNone /\ ~fallback_data.isNone
          /\ CallEnded => (ReturnedResult /\ result.strategy = "hybrid_fallback")

\* a user of the mapping with MaxHist interactions was served by the
\* fallback by an engine without a matrix
C30_Witness ==
    /\ load_result = "true"
    /\ user_item_matrix.isNone
    /\ FallbackResult
    /\ request.user_id \in DOMAIN user_mappings.val.to_idx
    /\ Len(History) = MaxHist
    /\ Len(History) >= min_history_threshold
    /\ result.recommendations # <<>>

====
